---- MODULE Spec2Model ----
(***************************************************************************)
(* A model of the discord-irc relay bot (src/lib/bot.js): the Bot class,   *)
(* its construction from options, the listeners it attaches to the IRC    *)
(* and Discord clients, and the two relay paths sendToIRC / sendToDiscord. *)
(* Text is modelled as TLA+ strings, character by character.               *)
(***************************************************************************)
EXTENDS Integers, Sequences, FiniteSets, TLC

VARIABLES
  \* the options the bot was constructed from, and the fields set by the constructor
  options,
  nickname, commandCharacters, ircNickColor,
  relayChannelJoins, relayChannelParts, relayChannelQuits, relayChannelNames,
  channelMapping, invertedMapping, autoSendCommands,
  \* the Discord client's caches (this.discord.channels, this.discord.users)
  discordReady, discordChannels, discordUsers,
  \* the process and the IRC connection
  alive, registrations, autoIssued,
  \* the event handled last and what its handler did
  event, ircOut, discordOut, logged, threw,
  \* the calls made on the two clients by the last `window` events, oldest
  \* first; window is 0 where the calls are not followed
  wire, window

configVars == <<options, nickname, commandCharacters, ircNickColor,
                relayChannelJoins, relayChannelParts, relayChannelQuits,
                relayChannelNames, channelMapping, invertedMapping,
                autoSendCommands>>
discordVars == <<discordReady, discordChannels, discordUsers>>
outVars == <<event, ircOut, discordOut, logged, threw>>
vars == <<configVars, discordVars, alive, registrations, autoIssued, outVars, wire, window>>

(***************************************************************************)
(* JavaScript string primitives.                                           *)
(***************************************************************************)
CharAt(s, i) == SubSeq(s, i, i)

\* the first position from i on at which pat occurs in s, 0 when there is none
RECURSIVE IndexFrom(_, _, _)
IndexFrom(s, pat, i) ==
  IF i + Len(pat) - 1 > Len(s) THEN 0
  ELSE IF SubSeq(s, i, i + Len(pat) - 1) = pat THEN i
  ELSE IndexFrom(s, pat, i + 1)

\* String.prototype.indexOf, 1-based; 0 when pat does not occur
IndexOf(s, pat) == IndexFrom(s, pat, 1)

\* String.prototype.replace with a string pattern: the first occurrence only
StrReplace(s, pat, rep) ==
  LET i == IndexOf(s, pat)
  IN IF i = 0 THEN s
     ELSE SubSeq(s, 1, i - 1) \o rep \o SubSeq(s, i + Len(pat), Len(s))

UpperCase == "ABCDEFGHIJKLMNOPQRSTUVWXYZ"
LowerCase == "abcdefghijklmnopqrstuvwxyz"
DigitChars == "0123456789"

UpperSet == {CharAt(UpperCase, i) : i \in 1..Len(UpperCase)}
LowerSet == {CharAt(LowerCase, i) : i \in 1..Len(LowerCase)}
DigitSet == {CharAt(DigitChars, i) : i \in 1..Len(DigitChars)}
LowerOf == [c \in UpperSet |-> CharAt(LowerCase, IndexOf(UpperCase, c))]

\* String.prototype.toLowerCase
RECURSIVE ToLowerCase(_)
ToLowerCase(s) ==
  IF \A i \in 1..Len(s) : CharAt(s, i) \notin UpperSet THEN s
  ELSE LET c == CharAt(s, 1)
       IN (IF c \in UpperSet THEN LowerOf[c] ELSE c) \o ToLowerCase(SubSeq(s, 2, Len(s)))

\* s.split(' ')[0]
FirstWord(s) ==
  LET i == IndexOf(s, " ")
  IN IF i = 0 THEN s ELSE SubSeq(s, 1, i - 1)

\* String.prototype.charCodeAt(0): the code of a letter, a digit, "_", "-" or "."
CharCode(c) ==
  IF c \in UpperSet THEN 64 + IndexOf(UpperCase, c)
  ELSE IF c \in LowerSet THEN 96 + IndexOf(LowerCase, c)
  ELSE IF c \in DigitSet THEN 47 + IndexOf(DigitChars, c)
  ELSE IF c = "_" THEN 95
  ELSE IF c = "-" THEN 45
  ELSE 46

IsDigit(c) == c \in DigitSet

\* \s and \w of JavaScript regular expressions
IsSpace(c) == c \in {" ", "\n", "\r", "\t", "\f"}
IsWordChar(c) == c = "_" \/ c \in DigitSet \/ c \in UpperSet \/ c \in LowerSet

(***************************************************************************)
(* Text transforms.                                                        *)
(***************************************************************************)
\* one step of the reduce in parseText: both mention syntaxes of one user
ReplaceMention(content, mention) ==
  StrReplace(StrReplace(content, "<@" \o mention.id \o ">", "@" \o mention.username),
             "<@!" \o mention.id \o ">", "@" \o mention.username)

RECURSIVE ReduceMentions(_, _)
ReduceMentions(mentions, content) ==
  IF mentions = <<>> THEN content
  ELSE ReduceMentions(Tail(mentions), ReplaceMention(content, Head(mentions)))

\* .replace(/\n|\r\n|\r/g, ' ')
RECURSIVE FoldLines(_)
FoldLines(s) ==
  IF \A i \in 1..Len(s) : CharAt(s, i) \notin {"\n", "\r"} THEN s
  ELSE IF CharAt(s, 1) = "\n" THEN " " \o FoldLines(SubSeq(s, 2, Len(s)))
  ELSE IF Len(s) >= 2 /\ SubSeq(s, 1, 2) = "\r\n" THEN " " \o FoldLines(SubSeq(s, 3, Len(s)))
  ELSE IF CharAt(s, 1) = "\r" THEN " " \o FoldLines(SubSeq(s, 2, Len(s)))
  ELSE CharAt(s, 1) \o FoldLines(SubSeq(s, 2, Len(s)))

\* the number of digits s holds from position i on
RECURSIVE DigitRun(_, _)
DigitRun(s, i) ==
  IF i > Len(s) \/ ~IsDigit(CharAt(s, i)) THEN 0 ELSE 1 + DigitRun(s, i + 1)

\* .replace(/<#(\d+)>/g, ...) with the callback of parseText, which reads
\* channel.name of this.discord.channels.get('id', channelId): a TypeError
\* when no channel has that id
RECURSIVE ExpandChannels(_, _)
ExpandChannels(s, chans) ==
  IF IndexOf(s, "<#") = 0 THEN [threw |-> FALSE, text |-> s]
  ELSE LET n == DigitRun(s, 3)
           isRef == /\ Len(s) >= 4
                    /\ SubSeq(s, 1, 2) = "<#"
                    /\ n >= 1
                    /\ 3 + n <= Len(s)
                    /\ CharAt(s, 3 + n) = ">"
       IN IF isRef
          THEN LET channelId == SubSeq(s, 3, 2 + n)
                   found == {c \in chans : c.id = channelId}
               IN IF found = {} THEN [threw |-> TRUE, text |-> ""]
                  ELSE LET rest == ExpandChannels(SubSeq(s, 4 + n, Len(s)), chans)
                           channel == CHOOSE c \in found : TRUE
                       IN [threw |-> rest.threw,
                           text |-> IF rest.threw THEN "" ELSE "#" \o channel.name \o rest.text]
          ELSE LET rest == ExpandChannels(SubSeq(s, 2, Len(s)), chans)
               IN [threw |-> rest.threw,
                   text |-> IF rest.threw THEN "" ELSE CharAt(s, 1) \o rest.text]

\* Bot.parseText: the text, or threw when the channel callback raises
ParseText(message, chans) ==
  ExpandChannels(FoldLines(ReduceMentions(message.mentions, message.content)), chans)

\* the number of non-whitespace characters s holds from position i on
RECURSIVE NonSpaceRun(_, _)
NonSpaceRun(s, i) ==
  IF i > Len(s) \/ IsSpace(CharAt(s, i)) THEN 0 ELSE 1 + NonSpaceRun(s, i + 1)

\* \b after position e of s
WordBoundary(s, e) ==
  IsWordChar(CharAt(s, e)) # (e + 1 <= Len(s) /\ IsWordChar(CharAt(s, e + 1)))

\* the end of the match of /@[^\s]+\b/ at the head of s, 0 when there is none
MentionEnd(s) ==
  IF s = "" \/ CharAt(s, 1) # "@" THEN 0
  ELSE LET ends == {e \in 2..(1 + NonSpaceRun(s, 2)) : WordBoundary(s, e)}
       IN IF ends = {} THEN 0 ELSE CHOOSE e \in ends : \A f \in ends : f <= e

\* text.replace(/@[^\s]+\b/g, ...) of sendToDiscord: a known username becomes
\* the user's mention, anything else stays
RECURSIVE WithMentions(_, _)
WithMentions(text, users) ==
  IF IndexOf(text, "@") = 0 THEN text
  ELSE LET e == MentionEnd(text)
       IN IF e = 0 THEN CharAt(text, 1) \o WithMentions(SubSeq(text, 2, Len(text)), users)
          ELSE LET found == {u \in users : u.username = SubSeq(text, 2, e)}
                   out == IF found = {} THEN SubSeq(text, 1, e)
                          ELSE "<@" \o (CHOOSE u \in found : TRUE).id \o ">"
               IN out \o WithMentions(SubSeq(text, e + 1, Len(text)), users)

\* a slip: the whole message is searched for a command character
IsCommandAnywhere(message, chars) ==
  \E i \in DOMAIN chars, j \in 1..Len(message) : chars[i] = CharAt(message, j)

\* Bot.isCommandMessage: commandCharacters.indexOf(message[0]) !== -1
IsCommandMessage(message, chars) ==
  message # "" /\ \E i \in DOMAIN chars : chars[i] = CharAt(message, 1)

NICK_COLORS == <<"light_blue", "dark_blue", "light_red", "dark_red", "light_green",
                 "dark_green", "magenta", "light_magenta", "orange", "yellow", "cyan",
                 "light_cyan">>

\* a slip: the length of the name is left out of the sum
ColorIndexOfInitial(username) == CharCode(CharAt(username, 1)) % Len(NICK_COLORS)

\* (username.charCodeAt(0) + username.length) % NICK_COLORS.length, 0-based
ColorIndex(username) == (CharCode(CharAt(username, 1)) + Len(username)) % Len(NICK_COLORS)

\* irc.colors.wrap(color, text): "{color}" and "{reset}" stand for the control
\* codes of the color and of the reset
ColorWrap(color, text) == "{" \o color \o "}" \o text \o "{reset}"

DisplayUsername(username, nickColor) ==
  IF nickColor THEN ColorWrap(NICK_COLORS[ColorIndex(username) + 1], username) ELSE username

(***************************************************************************)
(* Construction.                                                           *)
(***************************************************************************)
\* a slip: the IRC channel is stored without being lower-cased
MappingKeepingCase(raw) ==
  [d \in {raw[i][1] : i \in DOMAIN raw} |->
     LET i == CHOOSE j \in DOMAIN raw : raw[j][1] = d
     IN FirstWord(raw[i][2])]

\* options.channelMapping is an object: its entries in key order, each
\* <<discordChan, ircChan>>
MappingOf(raw) ==
  [d \in {raw[i][1] : i \in DOMAIN raw} |->
     LET i == CHOOSE j \in DOMAIN raw : raw[j][1] = d
     IN ToLowerCase(FirstWord(raw[i][2]))]

\* a slip: the first key of an IRC channel is kept, not the last
InvertKeepingFirst(raw) ==
  LET forward == MappingOf(raw)
  IN [c \in {forward[d] : d \in DOMAIN forward} |->
        LET first == CHOOSE i \in DOMAIN raw :
                       /\ forward[raw[i][1]] = c
                       /\ \A j \in DOMAIN raw : forward[raw[j][1]] = c => i <= j
        IN raw[first][1]]

\* _.invert(this.channelMapping): a later key overwrites an earlier one
InvertOf(raw) ==
  LET forward == MappingOf(raw)
  IN [c \in {forward[d] : d \in DOMAIN forward} |->
        LET last == CHOOSE i \in DOMAIN raw :
                      /\ forward[raw[i][1]] = c
                      /\ \A j \in DOMAIN raw : forward[raw[j][1]] = c => j <= i
        IN raw[last][1]]

\* options[field] == null ? false : options[field]
ToggleOf(o, field) == IF field \in DOMAIN o THEN o[field] ELSE FALSE

\* options[field] || []
ListOf(o, field) == IF field \in DOMAIN o THEN o[field] ELSE <<>>

\* options.ircNickColor !== false
NickColorOf(o) == IF "ircNickColor" \in DOMAIN o THEN o.ircNickColor # FALSE ELSE TRUE

(***************************************************************************)
(* What a handler does: the calls on the IRC client, the messages sent to  *)
(* Discord, the log entries, and whether it raised.                        *)
(***************************************************************************)
Nothing == [irc |-> <<>>, discord |-> <<>>, logs |-> <<>>, threw |-> FALSE]

Then(r1, r2) ==
  IF r1.threw THEN r1
  ELSE [irc |-> r1.irc \o r2.irc, discord |-> r1.discord \o r2.discord,
        logs |-> r1.logs \o r2.logs, threw |-> r2.threw]

Log(level) == [Nothing EXCEPT !.logs = <<level>>]
Say(channel, text) == [Nothing EXCEPT !.irc = <<[op |-> "say", args |-> <<channel, text>>]>>]
SendRaw(args) == [Nothing EXCEPT !.irc = <<[op |-> "send", args |-> args]>>]
Join(channel) == [Nothing EXCEPT !.irc = <<[op |-> "join", args |-> <<channel>>]>>]
SendMessage(channel, text) ==
  [Nothing EXCEPT !.discord = <<[channel |-> channel, text |-> text]>>]
Throw == [Nothing EXCEPT !.threw = TRUE]

\* the identity the Discord client is logged in as (this.discord.user)
DiscordUser == [id |-> "9", username |-> "bridge"]

HelpText == "Type .names to list users in this channel"

\* a slip: the missing channel is not checked for, and sending to it raises
SendToAbsentRaises(author, channel, text) ==
  LET key == ToLowerCase(channel)
  IN IF key \notin DOMAIN invertedMapping THEN Nothing
     ELSE LET discordChannelName == invertedMapping[key]
              found == {c \in discordChannels :
                          c.name = SubSeq(discordChannelName, 2, Len(discordChannelName))}
          IN IF found = {} THEN Then(Log("debug"), Throw)
             ELSE Then(Log("debug"),
                       SendMessage((CHOOSE c \in found : TRUE).name,
                                   "**<" \o author \o ">** " \o WithMentions(text, discordUsers)))

\* Bot.sendToDiscord
SendToDiscord(author, channel, text) ==
  LET key == ToLowerCase(channel)
  IN IF key \notin DOMAIN invertedMapping THEN Nothing
     ELSE LET discordChannelName == invertedMapping[key]
              found == {c \in discordChannels :
                          c.name = SubSeq(discordChannelName, 2, Len(discordChannelName))}
          IN IF found = {} THEN Log("info")
             ELSE Then(Log("debug"),
                       SendMessage((CHOOSE c \in found : TRUE).name,
                                   "**<" \o author \o ">** " \o WithMentions(text, discordUsers)))

\* the attachments.forEach of sendToIRC
RECURSIVE SendAttachments(_, _, _)
SendAttachments(attachments, ircChannel, displayUsername) ==
  IF attachments = <<>> THEN Nothing
  ELSE Then(Then(Log("debug"),
                 Say(ircChannel, "<" \o displayUsername \o "> " \o Head(attachments).url)),
            SendAttachments(Tail(attachments), ircChannel, displayUsername))

\* a slip: the names case lacks its break and falls through to the default
DispatchFallThrough(text, username, ircChannel) ==
  LET command == SubSeq(text, 2, Len(text))
      passThrough == Then(Say(ircChannel, "Command sent from Discord by " \o username \o ":"),
                          Say(ircChannel, text))
  IN IF command = "names"
     THEN Then(Then(Log("debug"), SendRaw(<<"NAMES", ircChannel>>)), passThrough)
     ELSE IF command = "help"
     THEN SendToDiscord("Relay/Help", ircChannel, HelpText)
     ELSE passThrough

\* a slip: the help text is said on IRC instead of sent back to Discord
DispatchHelpToIrc(text, username, ircChannel) ==
  LET command == SubSeq(text, 2, Len(text))
  IN IF command = "names"
     THEN Then(Log("debug"), SendRaw(<<"NAMES", ircChannel>>))
     ELSE IF command = "help"
     THEN Say(ircChannel, HelpText)
     ELSE Then(Say(ircChannel, "Command sent from Discord by " \o username \o ":"),
               Say(ircChannel, text))

\* the command switch of sendToIRC
DispatchCommand(text, username, ircChannel) ==
  LET command == SubSeq(text, 2, Len(text))
  IN IF command = "names"
     THEN Then(Log("debug"), SendRaw(<<"NAMES", ircChannel>>))
     ELSE IF command = "help"
     THEN SendToDiscord("Relay/Help", ircChannel, HelpText)
     ELSE Then(Say(ircChannel, "Command sent from Discord by " \o username \o ":"),
               Say(ircChannel, text))

\* a slip: the attachment lines are said before the text line
RelayAttachmentsFirst(text, message, displayUsername, ircChannel) ==
  Then(SendAttachments(message.attachments, ircChannel, displayUsername),
       IF text # ""
       THEN Then(Log("debug"), Say(ircChannel, "<" \o displayUsername \o "> " \o text))
       ELSE Nothing)

\* the default relay of sendToIRC: the text line, then one line per attachment
RelayLines(text, message, displayUsername, ircChannel) ==
  Then(IF text # ""
       THEN Then(Log("debug"), Say(ircChannel, "<" \o displayUsername \o "> " \o text))
       ELSE Nothing,
       SendAttachments(message.attachments, ircChannel, displayUsername))

\* the self check of sendToIRC: author.id === this.discord.user.id
IsOwnMessage(message) == message.author.id = DiscordUser.id

\* Bot.sendToIRC
SendToIRC(message) ==
  IF IsOwnMessage(message) THEN Nothing
  ELSE LET channelName == "#" \o message.channel
       IN IF channelName \notin DOMAIN channelMapping THEN Log("debug")
          ELSE LET ircChannel == channelMapping[channelName]
                   username == message.author.username
                   parsed == ParseText(message, discordChannels)
                   displayUsername == DisplayUsername(username, ircNickColor)
               IN Then(Log("debug"),
                       IF parsed.threw THEN Throw
                       ELSE IF IsCommandMessage(parsed.text, commandCharacters)
                       THEN DispatchCommand(parsed.text, username, ircChannel)
                       ELSE RelayLines(parsed.text, message, displayUsername, ircChannel))

(***************************************************************************)
(* The listeners of attachListeners.                                       *)
(***************************************************************************)
\* a reason the IRC client reports, which may be undefined
ReasonText(reason) == IF reason.isNull THEN "" ELSE reason.text

\* this.autoSendCommands.forEach(element => this.ircClient.send(...element))
\* a slip: the last command is left out
SendAllButLast(commands) ==
  IF Len(commands) <= 1 THEN Nothing
  ELSE [Nothing EXCEPT !.irc = [i \in 1..(Len(commands) - 1) |->
                                  [op |-> "send", args |-> commands[i]]]]

RECURSIVE SendAll(_)
SendAll(commands) ==
  IF commands = <<>> THEN Nothing ELSE Then(SendRaw(Head(commands)), SendAll(Tail(commands)))

OnRegistered == Then(Log("debug"), SendAll(autoSendCommands))

\* a slip: the error is logged and thrown again
OnErrorRaising == Then(Log("error"), Throw)

OnError == Log("error")

OnReady == Log("debug")

\* a slip: a message from IRC is looked at for the names command
OnMessageDispatching(author, to, text) ==
  IF IsCommandMessage(text, commandCharacters) /\ SubSeq(text, 2, Len(text)) = "names"
  THEN SendRaw(<<"NAMES", to>>)
  ELSE SendToDiscord(author, to, text)

OnMessage(author, to, text) == SendToDiscord(author, to, text)

OnNotice(author, to, text) == SendToDiscord(author, to, "*" \o text \o "*")

OnAction(author, to, text) == SendToDiscord(author, to, "_" \o text \o "_")

OnInvite(channel, from) ==
  Then(Log("debug"),
       IF channel \notin DOMAIN invertedMapping THEN Log("debug")
       ELSE Then(Join(channel), Log("debug")))

\* a slip: the join listener reads the parts toggle
OnJoinByParts(channel, nick) ==
  Then(Log("debug"),
       IF relayChannelParts
       THEN SendToDiscord(channel \o "/join", channel, nick \o " joined " \o channel)
       ELSE Nothing)

OnJoin(channel, nick) ==
  Then(Log("debug"),
       IF relayChannelJoins
       THEN SendToDiscord(channel \o "/join", channel, nick \o " joined " \o channel)
       ELSE Nothing)

OnPart(channel, nick, reason) ==
  Then(Log("debug"),
       IF relayChannelParts
       THEN SendToDiscord(channel \o "/part", channel,
                          nick \o " parted " \o channel \o ": " \o ReasonText(reason))
       ELSE Nothing)

OnKick(channel, nick, by, reason) ==
  Then(Log("debug"),
       IF relayChannelParts
       THEN SendToDiscord(channel \o "/kick", channel,
                          nick \o " kicked from " \o channel \o " by " \o by \o ": "
                            \o ReasonText(reason))
       ELSE Nothing)

\* a slip: the loop stops after the first channel
RelayFirst(channels, suffix, text) ==
  IF channels = <<>> THEN Nothing
  ELSE SendToDiscord(Head(channels) \o suffix, Head(channels), text)

\* the for loop of the quit and kill listeners
RECURSIVE RelayEach(_, _, _)
RelayEach(channels, suffix, text) ==
  IF channels = <<>> THEN Nothing
  ELSE Then(SendToDiscord(Head(channels) \o suffix, Head(channels), text),
            RelayEach(Tail(channels), suffix, text))

OnQuit(nick, reason, channels) ==
  Then(Log("debug"),
       IF relayChannelQuits
       THEN RelayEach(channels, "/quit", nick \o " quit: " \o ReasonText(reason))
       ELSE Nothing)

OnKill(nick, reason, channels) ==
  Then(Log("debug"),
       IF relayChannelQuits
       THEN RelayEach(channels, "/kill", nick \o " killed: " \o ReasonText(reason))
       ELSE Nothing)

\* Object.keys(nicks).join(' ')
RECURSIVE JoinWords(_)
JoinWords(words) ==
  IF words = <<>> THEN ""
  ELSE IF Len(words) = 1 THEN Head(words)
  ELSE Head(words) \o " " \o JoinWords(Tail(words))

OnNames(channel, nicks) ==
  Then(Log("debug"),
       IF relayChannelNames
       THEN SendToDiscord(channel, channel, "Users: " \o JoinWords(nicks))
       ELSE Nothing)

(***************************************************************************)
(* Bounds and the inputs the model draws from.                             *)
(***************************************************************************)
MaxRegistrations == 2
MaxAttachments == 2
\* the number of events whose calls the wire holds, where it is followed
MaxTraced == 2

Alice == [id |-> "1", username |-> "alice"]
Bob == [id |-> "2", username |-> "bob"]
Zed == [id |-> "3", username |-> "zed"]
Users == {Alice, Bob, Zed, DiscordUser}

General == [id |-> "7", name |-> "general"]
Dev == [id |-> "8", name |-> "dev"]
Random == [id |-> "6", name |-> "random"]
\* the channels the Discord client may be present in once ready
ChannelSets == {{General, Dev, Random}, {General, Random}}

UniqueMapping == <<<<"#general", "#relay">>>>
SecretMapping == <<<<"#general", "#Relay secret">>, <<"#dev", "#other">>>>
SharedMapping == <<<<"#general", "#relay">>, <<"#dev", "#Relay pw">>>>
Mappings == {UniqueMapping, SecretMapping, SharedMapping}

Required(mapping) ==
  [server |-> "irc.example.org", nickname |-> "bridge", discordToken |-> "token",
   channelMapping |-> mapping]

Toggles ==
  [relayChannelJoins : BOOLEAN, relayChannelParts : BOOLEAN,
   relayChannelQuits : BOOLEAN, relayChannelNames : BOOLEAN]

AutoSend == <<<<"PRIVMSG", "NickServ", "IDENTIFY pw">>, <<"MODE", "bridge", "+x">>>>

Defaults == {Required(m) : m \in Mappings}

\* every setting of the four toggles
RelayOptions ==
  Defaults \cup {t @@ [autoSendCommands |-> AutoSend] @@ Required(SecretMapping) : t \in Toggles}

\* the command characters and the nick color over every mapping
CommandOptions ==
  Defaults \cup {[commandCharacters |-> cc, ircNickColor |-> nc] @@ Required(m) :
                   cc \in {<<".">>, <<"!", ".", "@">>}, nc \in BOOLEAN, m \in Mappings}

\* a few whole configurations, for the machine with both clients
CoreOptions ==
  {Required(UniqueMapping),
   [commandCharacters |-> <<".">>, relayChannelJoins |-> TRUE, relayChannelParts |-> TRUE,
    relayChannelQuits |-> TRUE, relayChannelNames |-> TRUE, autoSendCommands |-> AutoSend]
     @@ Required(SharedMapping),
   [commandCharacters |-> <<"!", ".">>, relayChannelJoins |-> TRUE, relayChannelNames |-> FALSE,
    ircNickColor |-> FALSE, autoSendCommands |-> AutoSend] @@ Required(SecretMapping)}

Attachments(k) == [i \in 1..k |-> [url |-> "http://cdn/" \o CharAt(DigitChars, i + 1)]]

Message(author, channel, content, mentions, k) ==
  [author |-> author, channel |-> channel, content |-> content, mentions |-> mentions,
   attachments |-> Attachments(k)]

PlainContents == {"", "hi", ".names", ".help", ".ping", "!names", "?names",
                  "a\nb", "a\r\nb", "a\rb", "<#7>", "see <#5>"}
MentionContents == {"<@1>", "<@!1>", "<@1> <@1>", "<@!1> <@!1>", "<@1> <@2> hi", "<@1> .names"}
MentionLists == {<<>>, <<Alice>>, <<Alice, Bob>>}

DiscordMessages ==
  {Message(Alice, "general", c, <<>>, 0) : c \in PlainContents}
    \cup {Message(Alice, "general", c, <<>>, k) : c \in {"", "hi", ".names"}, k \in 1..MaxAttachments}
    \cup {Message(Alice, "general", c, m, 0) : c \in MentionContents, m \in MentionLists}
    \cup {Message(Alice, ch, c, <<>>, 0) : ch \in {"dev", "random"}, c \in {"hi", ".help", ".names"}}
    \cup {Message(a, ch, c, <<>>, 0) : a \in {Bob, DiscordUser}, ch \in {"general", "random"},
                                       c \in {"hi", ".names"}}
    \cup {Message(Zed, "general", "hi", <<>>, 0)}

IrcChannels == {"#relay", "#Relay", "#other", "#nowhere"}
IrcNicks == {"carol", "bridge"}
IrcTexts == {"hi", "@alice: hi @bob", ".names"}
\* who said what: the bridge's own nick only says "hi"
IrcLines == {<<"carol", t>> : t \in IrcTexts} \cup {<<"bridge", "hi">>}
Reasons == {[isNull |-> TRUE], [isNull |-> FALSE, text |-> "bye"]}
ChannelLists == {<<>>, <<"#relay">>, <<"#Relay", "#nowhere">>, <<"#other", "#relay">>}
NickLists == {<<"carol", "dave">>}

(***************************************************************************)
(* The state machine.                                                      *)
(***************************************************************************)
InitOf(configurations, traced) ==
  \E o \in configurations :
    /\ wire = <<>>
    /\ window = traced
    /\ options = o
    /\ nickname = o.nickname
    /\ commandCharacters = ListOf(o, "commandCharacters")
    /\ ircNickColor = NickColorOf(o)
    /\ relayChannelJoins = ToggleOf(o, "relayChannelJoins")
    /\ relayChannelParts = ToggleOf(o, "relayChannelParts")
    /\ relayChannelQuits = ToggleOf(o, "relayChannelQuits")
    /\ relayChannelNames = ToggleOf(o, "relayChannelNames")
    /\ channelMapping = MappingOf(o.channelMapping)
    /\ invertedMapping = InvertOf(o.channelMapping)
    /\ autoSendCommands = ListOf(o, "autoSendCommands")
    /\ discordReady = FALSE
    /\ discordChannels = {}
    /\ discordUsers = {}
    /\ alive = TRUE
    /\ registrations = 0
    /\ autoIssued = <<>>
    /\ event = [kind |-> "none"]
    /\ ircOut = <<>>
    /\ discordOut = <<>>
    /\ logged = <<>>
    /\ threw = FALSE

\* the calls a handler made, in the order it made them
CallsOf(r) ==
  [i \in DOMAIN r.irc |-> [age |-> 0, client |-> "irc", call |-> r.irc[i]]]
    \o [i \in DOMAIN r.discord |-> [age |-> 0, client |-> "discord", call |-> r.discord[i]]]

\* the calls of the events before, each one event older, those too old forgotten
Older(w) ==
  LET kept == SelectSeq(w, LAMBDA e : e.age + 1 < window)
  IN [i \in DOMAIN kept |-> [kept[i] EXCEPT !.age = @ + 1]]

\* a slip: the calls of an event overtake those of the events before it
RememberNewestFirst(w, r) == IF window = 0 THEN <<>> ELSE CallsOf(r) \o Older(w)

\* the clients are called as the handler runs: its calls follow those made before
Remember(w, r) == IF window = 0 THEN <<>> ELSE Older(w) \o CallsOf(r)

\* a slip: an invite to a channel outside the mapping adds it to the inverse table
HandleLearning(ev, result) ==
  \E r \in {result} :
  /\ alive
  /\ event' = ev
  /\ ircOut' = r.irc
  /\ discordOut' = r.discord
  /\ logged' = r.logs
  /\ threw' = r.threw
  /\ alive' \in (IF r.threw THEN BOOLEAN ELSE {TRUE})
  /\ wire' = Remember(wire, r)
  /\ UNCHANGED window
  /\ invertedMapping' =
       IF ev.kind = "invite" /\ ev.channel \notin DOMAIN invertedMapping
       THEN (ev.channel :> "#general") @@ invertedMapping
       ELSE invertedMapping
  /\ UNCHANGED <<options, nickname, commandCharacters, ircNickColor, relayChannelJoins,
                 relayChannelParts, relayChannelQuits, relayChannelNames, channelMapping,
                 autoSendCommands>>

\* one event handled to completion: what its listener did, and, when the
\* listener raised, a process that either survives or is terminated by the
\* uncaught exception
Handle(ev, result) ==
  \E r \in {result} :
  /\ alive
  /\ event' = ev
  /\ ircOut' = r.irc
  /\ discordOut' = r.discord
  /\ logged' = r.logs
  /\ threw' = r.threw
  /\ alive' \in (IF r.threw THEN BOOLEAN ELSE {TRUE})
  /\ wire' = Remember(wire, r)
  /\ UNCHANGED window
  /\ UNCHANGED configVars

DiscordReadyEvent ==
  \E chans \in ChannelSets :
    /\ discordReady' = TRUE
    /\ discordChannels' = chans
    /\ discordUsers' = Users
    /\ Handle([kind |-> "ready"], OnReady)
    /\ UNCHANGED <<registrations, autoIssued>>

DiscordErrorEvent ==
  /\ Handle([kind |-> "discordError"], OnError)
  /\ UNCHANGED <<discordVars, registrations, autoIssued>>

DiscordMessageEvent ==
  \E m \in DiscordMessages :
    /\ discordReady
    /\ \E c \in discordChannels : c.name = m.channel
    /\ Handle([kind |-> "discordMessage", message |-> m], SendToIRC(m))
    /\ UNCHANGED <<discordVars, registrations, autoIssued>>

IrcRegisteredEvent ==
  /\ registrations < MaxRegistrations
  /\ registrations' = registrations + 1
  /\ autoIssued' = autoIssued \o OnRegistered.irc
  /\ Handle([kind |-> "registered"], OnRegistered)
  /\ UNCHANGED discordVars

IrcErrorEvent ==
  /\ Handle([kind |-> "ircError"], OnError)
  /\ UNCHANGED <<discordVars, registrations, autoIssued>>

\* an event of a registered IRC connection
IrcEvent(ev, r) ==
  /\ registrations > 0
  /\ Handle(ev, r)
  /\ UNCHANGED <<discordVars, registrations, autoIssued>>

IrcMessageEvent ==
  \E line \in IrcLines, to \in IrcChannels :
    IrcEvent([kind |-> "message", nick |-> line[1], channel |-> to, text |-> line[2]],
             OnMessage(line[1], to, line[2]))

IrcNoticeEvent ==
  \E nick \in IrcNicks, to \in {"#relay", "#nowhere"} :
    IrcEvent([kind |-> "notice", nick |-> nick, channel |-> to, text |-> "hi"],
             OnNotice(nick, to, "hi"))

IrcActionEvent ==
  \E nick \in IrcNicks, to \in {"#Relay", "#nowhere"} :
    IrcEvent([kind |-> "action", nick |-> nick, channel |-> to, text |-> "hi"],
             OnAction(nick, to, "hi"))

IrcInviteEvent ==
  \E channel \in IrcChannels :
    IrcEvent([kind |-> "invite", channel |-> channel, nick |-> "carol"],
             OnInvite(channel, "carol"))

IrcJoinEvent ==
  \E channel \in IrcChannels, nick \in IrcNicks :
    IrcEvent([kind |-> "join", channel |-> channel, nick |-> nick], OnJoin(channel, nick))

IrcPartEvent ==
  \E channel \in {"#Relay", "#nowhere"}, reason \in Reasons :
    IrcEvent([kind |-> "part", channel |-> channel, nick |-> "carol", reason |-> reason],
             OnPart(channel, "carol", reason))

IrcKickEvent ==
  \E channel \in {"#relay", "#nowhere"}, reason \in Reasons :
    IrcEvent([kind |-> "kick", channel |-> channel, nick |-> "carol", by |-> "dave",
              reason |-> reason],
             OnKick(channel, "carol", "dave", reason))

IrcQuitEvent ==
  \E channels \in ChannelLists, reason \in Reasons :
    IrcEvent([kind |-> "quit", nick |-> "carol", reason |-> reason, channels |-> channels],
             OnQuit("carol", reason, channels))

IrcKillEvent ==
  \E channels \in ChannelLists, reason \in {[isNull |-> TRUE]} :
    IrcEvent([kind |-> "kill", nick |-> "carol", reason |-> reason, channels |-> channels],
             OnKill("carol", reason, channels))

IrcNamesEvent ==
  \E channel \in IrcChannels, nicks \in NickLists :
    IrcEvent([kind |-> "names", channel |-> channel, nicks |-> nicks],
             OnNames(channel, nicks))

DiscordEvents ==
  \/ DiscordReadyEvent
  \/ DiscordErrorEvent
  \/ DiscordMessageEvent

IrcEvents ==
  \/ IrcRegisteredEvent
  \/ IrcErrorEvent
  \/ IrcMessageEvent
  \/ IrcNoticeEvent
  \/ IrcActionEvent
  \/ IrcInviteEvent
  \/ IrcJoinEvent
  \/ IrcPartEvent
  \/ IrcKickEvent
  \/ IrcQuitEvent
  \/ IrcKillEvent
  \/ IrcNamesEvent

Init == InitOf(CoreOptions, 0)

Next == DiscordEvents \/ IrcEvents

\* the bot with both clients connected
Spec == Init /\ [][Next]_vars

\* the Discord client's events alone, over the command configurations
InitDiscord == InitOf(CommandOptions, 0)
SpecDiscord == InitDiscord /\ [][DiscordEvents]_vars

\* the IRC client's events and Discord's ready, over the relay configurations
InitIrc == InitOf(RelayOptions, 0)
NextIrc == DiscordReadyEvent \/ IrcEvents
SpecIrc == InitIrc /\ [][NextIrc]_vars

\* the calls on the two clients followed, for a bot with commands and quits relayed
OrderOptions ==
  {[commandCharacters |-> <<".">>, relayChannelQuits |-> TRUE] @@ Required(SecretMapping)}
InitOrder == InitOf(OrderOptions, MaxTraced)
\* the Discord messages followed: a text, attachments, a command, a help request
FollowedMessages ==
  {m \in DiscordMessages : /\ m.author = Alice
                           /\ m.channel = "general"
                           /\ m.content \in {"", "hi", ".ping", ".help"}}
NextOrder ==
  \/ DiscordReadyEvent
  \/ DiscordMessageEvent /\ event'.message \in FollowedMessages
  \/ IrcRegisteredEvent
  \/ IrcMessageEvent /\ event'.nick = "carol" /\ event'.text = "hi"
  \/ IrcQuitEvent
SpecOrder == InitOrder /\ [][NextOrder]_vars

(***************************************************************************)
(* Vocabulary of the properties.                                           *)
(***************************************************************************)
Contains(s, pat) == IndexOf(s, pat) # 0
StartsWith(s, pat) == Len(s) >= Len(pat) /\ SubSeq(s, 1, Len(pat)) = pat

IsDiscordMessage == event.kind = "discordMessage"
\* a Discord message of somebody else, in a channel with a counterpart
Relayable ==
  /\ IsDiscordMessage
  /\ event.message.author.id # DiscordUser.id
  /\ ("#" \o event.message.channel) \in DOMAIN channelMapping
MappedIrcChannel == channelMapping["#" \o event.message.channel]

\* an IRC channel with a counterpart the bridge is present in
Bridged(channel) ==
  /\ ToLowerCase(channel) \in DOMAIN invertedMapping
  /\ \E c \in discordChannels : "#" \o c.name = invertedMapping[ToLowerCase(channel)]
DiscordCounterpart(channel) ==
  SubSeq(invertedMapping[ToLowerCase(channel)], 2, Len(invertedMapping[ToLowerCase(channel)]))

NothingSent == ircOut = <<>> /\ discordOut = <<>>

(***************************************************************************)
(* C1: an event whose author is the bridge's own identity on the source    *)
(* network (a Discord message of the bridge's Discord user; an IRC         *)
(* message, notice, action or join of the bridge's IRC nickname) produces  *)
(* no send on either network.                                              *)
(***************************************************************************)
OwnDiscordEvent == IsDiscordMessage /\ event.message.author.id = DiscordUser.id
OwnIrcEvent == event.kind \in {"message", "notice", "action", "join"} /\ event.nick = nickname

\* C1: handling an event of the bridge's own identity sends nothing
C1_OwnEventsNeverRelayed == (OwnDiscordEvent \/ OwnIrcEvent) => NothingSent

(***************************************************************************)
(* C2: an event on a channel with no counterpart in the mapping table      *)
(* produces no send, exactly one log entry and no exception.               *)
(***************************************************************************)
UnmappedDiscordEvent ==
  /\ IsDiscordMessage
  /\ event.message.author.id # DiscordUser.id
  /\ ("#" \o event.message.channel) \notin DOMAIN channelMapping
\* an IRC event of somebody else on a channel without a counterpart
UnmappedIrcEvent ==
  /\ \/ event.kind \in {"message", "notice", "action", "join", "part", "kick"}
        /\ event.nick # nickname
     \/ event.kind = "names"
  /\ ToLowerCase(event.channel) \notin DOMAIN invertedMapping

\* C2: an event on an unmapped channel sends nothing, logs once, raises nothing
C2_UnmappedDroppedWithOneLog ==
  (UnmappedDiscordEvent \/ UnmappedIrcEvent) => (NothingSent /\ Len(logged) = 1 /\ ~threw)

(***************************************************************************)
(* C3: a Discord message in a mapped channel holding a channel reference   *)
(* of an unknown id is still relayed, the token left as it was, and the    *)
(* transform does not raise.                                               *)
(***************************************************************************)
UnknownReference == "<#5>"

\* C3: the message is relayed with the unknown reference left in it, nothing raised
C3_UnknownReferenceRelayed ==
  (Relayable /\ Contains(event.message.content, UnknownReference)) =>
     /\ ~threw
     /\ alive
     /\ \E i \in DOMAIN ircOut :
          /\ ircOut[i].op = "say"
          /\ ircOut[i].args[1] = MappedIrcChannel
          /\ Contains(ircOut[i].args[2], UnknownReference)

(***************************************************************************)
(* C4: over the bot's lifetime, reconnects included, each auto-send        *)
(* command is issued exactly once, in declared order.                      *)
(* As amended: each registered event issues every auto-send command once,  *)
(* in declared order, so after k registered events the commands have been  *)
(* issued k times over.                                                    *)
(***************************************************************************)
RECURSIVE Repeat(_, _)
Repeat(seq, k) == IF k = 0 THEN <<>> ELSE seq \o Repeat(seq, k - 1)

RawSends(commands) == [i \in DOMAIN commands |-> [op |-> "send", args |-> commands[i]]]

\* C4 as stated: once registered, the commands have been issued once in all
C4_IssuedOnceOverLifetime == registrations >= 1 => autoIssued = RawSends(autoSendCommands)

\* C4 as amended: the commands are issued once, in order, at every registration
C4_IssuedOncePerRegistration ==
  /\ autoIssued = Repeat(RawSends(autoSendCommands), registrations)
  /\ event.kind = "registered" => (ircOut = RawSends(autoSendCommands) /\ discordOut = <<>>)

\* C4 witness: the second registration of a bot with two auto-send commands
C4_Reconnected ==
  /\ event.kind = "registered"
  /\ registrations = 2
  /\ Len(autoSendCommands) = 2
  /\ Len(autoIssued) = 4

(***************************************************************************)
(* C5: with relayChannelQuits on, a quit or kill reporting the channels L  *)
(* relays one message per channel of L, |L| in all; with it off, none.     *)
(* As amended: one message per entry of L whose channel has a counterpart  *)
(* the bridge is present in, in list order, each to that counterpart;      *)
(* the other entries relay nothing.                                        *)
(***************************************************************************)
IsQuitOrKill == event.kind \in {"quit", "kill"}
EverywherePresent == discordChannels = {General, Dev, Random}

QuitLine(channel) ==
  [channel |-> DiscordCounterpart(channel),
   text |-> "**<" \o channel \o "/" \o event.kind \o ">** " \o event.nick
              \o (IF event.kind = "quit" THEN " quit: " ELSE " killed: ")
              \o (IF event.reason.isNull THEN "" ELSE event.reason.text)]

\* C5 as stated: |L| messages, even with the bridge present in every Discord channel
C5_OnePerReportedChannel ==
  (IsQuitOrKill /\ EverywherePresent) =>
     IF relayChannelQuits THEN Len(discordOut) = Len(event.channels) ELSE discordOut = <<>>

\* C5 as amended: one message per bridged entry of L, in list order
C5_OnePerBridgedChannel ==
  IsQuitOrKill =>
     LET kept == SelectSeq(event.channels, Bridged)
     IN /\ ircOut = <<>>
        /\ relayChannelQuits => discordOut = [i \in DOMAIN kept |-> QuitLine(kept[i])]
        /\ ~relayChannelQuits => discordOut = <<>>

\* C5 witness: a quit over a bridged and an unmapped channel relays one message
C5_QuitAcrossChannels ==
  /\ event.kind = "quit"
  /\ relayChannelQuits
  /\ event.channels = <<"#Relay", "#nowhere">>
  /\ Len(discordOut) = 1
  /\ discordOut[1].channel = "general"

(***************************************************************************)
(* C6: the four relay toggles are independent and off by default: a join,  *)
(* part/kick, quit/kill or names event sends only if its own toggle is on; *)
(* with the defaults none of them sends; with relayChannelJoins on, a join *)
(* of n in a mapped channel c (whose counterpart the bridge is present in) *)
(* relays exactly one message, "n joined c" from the author "c/join".      *)
(***************************************************************************)
MembershipKinds == {"join", "part", "kick", "quit", "kill", "names"}
ToggleNames == {"relayChannelJoins", "relayChannelParts", "relayChannelQuits",
                "relayChannelNames"}

OwnToggle ==
  CASE event.kind = "join" -> relayChannelJoins
    [] event.kind \in {"part", "kick"} -> relayChannelParts
    [] event.kind \in {"quit", "kill"} -> relayChannelQuits
    [] event.kind = "names" -> relayChannelNames

\* C6: each toggle is its own option (off when absent) and alone gates its events
C6_TogglesIndependent ==
  /\ relayChannelJoins = ("relayChannelJoins" \in DOMAIN options /\ options.relayChannelJoins)
  /\ relayChannelParts = ("relayChannelParts" \in DOMAIN options /\ options.relayChannelParts)
  /\ relayChannelQuits = ("relayChannelQuits" \in DOMAIN options /\ options.relayChannelQuits)
  /\ relayChannelNames = ("relayChannelNames" \in DOMAIN options /\ options.relayChannelNames)
  /\ event.kind \in MembershipKinds =>
       /\ ircOut = <<>>
       /\ discordOut # <<>> => OwnToggle
       /\ ToggleNames \cap DOMAIN options = {} => discordOut = <<>>
       /\ (event.kind \in {"join", "part", "kick", "names"} /\ Bridged(event.channel)) =>
            Len(discordOut) = (IF OwnToggle THEN 1 ELSE 0)
       /\ (event.kind = "join" /\ relayChannelJoins /\ Bridged(event.channel)) =>
            discordOut = <<[channel |-> DiscordCounterpart(event.channel),
                            text |-> "**<" \o event.channel \o "/join>** " \o event.nick
                                       \o " joined " \o event.channel]>>

\* C6 witness: a join relayed with only relayChannelJoins on
C6_JoinAloneRelayed ==
  /\ event.kind = "join"
  /\ event.channel = "#Relay"
  /\ relayChannelJoins /\ ~relayChannelParts /\ ~relayChannelQuits /\ ~relayChannelNames
  /\ discordOut = <<[channel |-> "general", text |-> "**<#Relay/join>** carol joined #Relay"]>>

(***************************************************************************)
(* C7: the command "<prefix>names" in a mapped channel issues exactly one  *)
(* raw NAMES request for the mapped IRC channel and relays no message on   *)
(* either network; a names listing reaches Discord only through a names    *)
(* event, and only if relayChannelNames is on.                             *)
(***************************************************************************)
IsPrefix(c) == \E i \in DOMAIN commandCharacters : commandCharacters[i] = c

IsCommandNamed(word) ==
  /\ Relayable
  /\ Len(event.message.content) = Len(word) + 1
  /\ IsPrefix(CharAt(event.message.content, 1))
  /\ SubSeq(event.message.content, 2, Len(event.message.content)) = word

\* C7: the names command sends one NAMES and no message; names events obey relayChannelNames
C7_NamesRequestOnly ==
  /\ IsCommandNamed("names") =>
       /\ ircOut = <<[op |-> "send", args |-> <<"NAMES", MappedIrcChannel>>]>>
       /\ discordOut = <<>>
  /\ event.kind = "names" =>
       /\ ircOut = <<>>
       /\ discordOut # <<>> => relayChannelNames

\* C7 witness: a names command carrying an attachment
C7_NamesWithAttachment ==
  /\ IsCommandNamed("names")
  /\ event.message.attachments # <<>>
  /\ ircOut = <<[op |-> "send", args |-> <<"NAMES", "#relay">>]>>

(***************************************************************************)
(* C8: a Discord message in a mapped channel is a command iff the first    *)
(* character of its body is a command character (never, by default); a     *)
(* command other than names and help sends the announcement and then the   *)
(* command text to the mapped IRC channel, and no "<author> body" line; a  *)
(* non-command sends no raw command and no announcement.                   *)
(* As amended: the character tested is the first one of the transformed    *)
(* text (mentions replaced, line breaks folded, channel references         *)
(* expanded), and the second line is that transformed text.               *)
(***************************************************************************)
Announcement == "Command sent from Discord by " \o event.message.author.username \o ":"
SayTo(text) == [op |-> "say", args |-> <<MappedIrcChannel, text>>]
AuthorPrefix ==
  "<" \o DisplayUsername(event.message.author.username, ircNickColor) \o "> "
IsRelayLine(entry) ==
  entry.op = "say" /\ entry.args[1] = MappedIrcChannel /\ StartsWith(entry.args[2], AuthorPrefix)

CommandOutcome(text) ==
  LET isCommand == text # "" /\ IsPrefix(CharAt(text, 1))
      command == SubSeq(text, 2, Len(text))
  IN /\ (isCommand /\ command \notin {"names", "help"}) =>
          (ircOut = <<SayTo(Announcement), SayTo(text)>> /\ discordOut = <<>>)
     /\ isCommand => \A i \in DOMAIN ircOut : ~IsRelayLine(ircOut[i])
     /\ ~isCommand => (discordOut = <<>> /\ \A i \in DOMAIN ircOut : IsRelayLine(ircOut[i]))
     /\ "commandCharacters" \notin DOMAIN options => ~isCommand

\* C8 as stated: the first character of the body decides
C8_CommandIffBodyPrefixed ==
  (Relayable /\ ~threw) => CommandOutcome(event.message.content)

\* C8 as amended: the first character of the transformed text decides
C8_CommandIffTextPrefixed ==
  /\ (Relayable /\ ~threw) => CommandOutcome(ParseText(event.message, discordChannels).text)
  /\ (Relayable /\ threw) => NothingSent

\* C8 witness: a body starting with a mention is dispatched as a command
C8_MentionBecomesCommand ==
  /\ Relayable
  /\ event.message.content = "<@1>"
  /\ ircOut = <<SayTo("Command sent from Discord by alice:"), SayTo("@alice")>>

(***************************************************************************)
(* C9: the command "<prefix>help" in the mapped channel d relays exactly   *)
(* one usage message to Discord, to d itself, from the author Relay/Help,  *)
(* and nothing to IRC, whatever the mapping table.                         *)
(* As amended: the message goes to the channel the inverse table holds     *)
(* for d's IRC channel, which is d when d's mapping is unique and the      *)
(* last-inserted channel when several map to that IRC channel; nothing is  *)
(* sent when the bridge is not present in that channel.                    *)
(***************************************************************************)
HelpLine(channel) == [channel |-> channel, text |-> "**<Relay/Help>** " \o HelpText]

UniquelyMapped(d) ==
  \A other \in DOMAIN channelMapping : channelMapping[other] = channelMapping[d] => other = d

\* C9 as stated: the usage message goes to the channel the command came from
C9_HelpToIssuingChannel ==
  (IsCommandNamed("help") /\ EverywherePresent) => (discordOut = <<HelpLine(event.message.channel)>> /\ ircOut = <<>>)

\* C9 as amended: the usage message goes to the inverse table's channel
C9_HelpToInverseChannel ==
  IsCommandNamed("help") =>
     /\ ircOut = <<>>
     /\ discordOut = IF Bridged(MappedIrcChannel)
                     THEN <<HelpLine(DiscordCounterpart(MappedIrcChannel))>>
                     ELSE <<>>
     /\ UniquelyMapped("#" \o event.message.channel) =>
          discordOut = <<HelpLine(event.message.channel)>>

\* C9 witness: help asked in general, answered in dev
C9_HelpMisrouted ==
  /\ IsCommandNamed("help")
  /\ event.message.channel = "general"
  /\ discordOut = <<HelpLine("dev")>>

(***************************************************************************)
(* C10: the text relayed to IRC holds no mention token, <@id> or <@!id>,   *)
(* of a mentioned user, however often the token occurs in the body.        *)
(***************************************************************************)
\* C10: no mention token of a mentioned user is left in a relayed line
C10_NoMentionTokenLeft ==
  (Relayable /\ ~threw) =>
     \A i \in DOMAIN ircOut, j \in DOMAIN event.message.mentions :
        ircOut[i].op = "say" =>
          /\ ~Contains(ircOut[i].args[2], "<@" \o event.message.mentions[j].id \o ">")
          /\ ~Contains(ircOut[i].args[2], "<@!" \o event.message.mentions[j].id \o ">")

(***************************************************************************)
(* C11: after construction, forward[c] is c's configured IRC channel with  *)
(* the password segment removed and lower-cased, and inverse[forward[c]]   *)
(* is c for every Discord channel c whose mapping is unique; so an IRC     *)
(* message, notice or action on forward[c], in any letter case, is relayed *)
(* to c, and a Discord message on c is relayed to forward[c].              *)
(***************************************************************************)
RawMapping == options.channelMapping

\* the configured IRC channel up to its first space
RECURSIVE UpToSpace(_)
UpToSpace(s) ==
  IF s = "" \/ CharAt(s, 1) = " " THEN "" ELSE CharAt(s, 1) \o UpToSpace(SubSeq(s, 2, Len(s)))

SameIgnoringCase(s, t) == ToLowerCase(s) = ToLowerCase(t)
HasNoUpperCase(s) == \A i \in 1..Len(s) : CharAt(s, i) \notin UpperSet

IsIrcTalk == event.kind \in {"message", "notice", "action"}

\* C11: forward strips and lower-cases, inverse undoes forward on unique mappings, relays follow
C11_InverseOfForward ==
  /\ DOMAIN channelMapping = {RawMapping[i][1] : i \in DOMAIN RawMapping}
  /\ \A i \in DOMAIN RawMapping :
        LET c == RawMapping[i][1]
        IN /\ SameIgnoringCase(channelMapping[c], UpToSpace(RawMapping[i][2]))
           /\ HasNoUpperCase(channelMapping[c])
           /\ ~Contains(channelMapping[c], " ")
           /\ UniquelyMapped(c) =>
                /\ channelMapping[c] \in DOMAIN invertedMapping
                /\ invertedMapping[channelMapping[c]] = c
                /\ (/\ IsIrcTalk
                    /\ SameIgnoringCase(event.channel, channelMapping[c])
                    /\ \E ch \in discordChannels : "#" \o ch.name = c) =>
                     /\ Len(discordOut) = 1
                     /\ "#" \o discordOut[1].channel = c
                /\ (Relayable /\ "#" \o event.message.channel = c /\ ~threw) =>
                     /\ \A k \in DOMAIN ircOut :
                          ircOut[k].args[IF ircOut[k].op = "send" THEN 2 ELSE 1] = channelMapping[c]
                     /\ (ircOut = <<>> /\ discordOut = <<>>) =>
                          (event.message.content = "" /\ event.message.attachments = <<>>)

\* C11 witness: a message on #Relay reaches general, configured as "#Relay secret"
C11_RelayedThroughInverse ==
  /\ RawMapping = SecretMapping
  /\ event.kind = "message"
  /\ event.channel = "#Relay"
  /\ Len(discordOut) = 1
  /\ discordOut[1].channel = "general"

(***************************************************************************)
(* C12: when several Discord channels are configured for one IRC channel   *)
(* (after password stripping and lower-casing), the inverse table holds    *)
(* one entry for it, the Discord channel configured last; every IRC event  *)
(* on it is relayed to that channel only, and Discord messages of each of  *)
(* the colliding channels still go to the shared IRC channel.              *)
(***************************************************************************)
\* the Discord channels configured for the IRC channel k
Sources(k) == {d \in DOMAIN channelMapping : channelMapping[d] = k}
Shared(k) == Cardinality(Sources(k)) >= 2

\* the position of the Discord channel d in the configuration
PositionOf(d) == CHOOSE i \in DOMAIN RawMapping : RawMapping[i][1] = d

LastConfigured(k) ==
  CHOOSE d \in Sources(k) : \A other \in Sources(k) : PositionOf(other) <= PositionOf(d)

IsIrcRelayKind ==
  event.kind \in {"message", "notice", "action", "join", "part", "kick", "names"}

\* C12: the inverse keeps the last-configured channel; IRC goes there, Discord still comes through
C12_LastInsertedWins ==
  /\ DOMAIN invertedMapping = {channelMapping[d] : d \in DOMAIN channelMapping}
  /\ \A k \in DOMAIN invertedMapping :
        /\ invertedMapping[k] = LastConfigured(k)
        /\ Shared(k) =>
             /\ (IsIrcRelayKind /\ ToLowerCase(event.channel) = k) =>
                  \A i \in DOMAIN discordOut : "#" \o discordOut[i].channel = LastConfigured(k)
             /\ (IsIrcTalk /\ ToLowerCase(event.channel) = k /\ Bridged(k)) =>
                  Len(discordOut) = 1
             /\ (IsQuitOrKill /\ \A j \in DOMAIN event.channels : ToLowerCase(event.channels[j]) = k) =>
                  \A i \in DOMAIN discordOut : "#" \o discordOut[i].channel = LastConfigured(k)
             /\ (Relayable /\ MappedIrcChannel = k /\ ~threw) =>
                  /\ \A i \in DOMAIN ircOut :
                       ircOut[i].args[IF ircOut[i].op = "send" THEN 2 ELSE 1] = k
                  /\ (event.message.content = "hi") =>
                       Len(ircOut) = 1 + Len(event.message.attachments)

\* C12 witness: general and dev share #relay; a message on #Relay goes to dev alone
C12_SharedGoesToLast ==
  /\ RawMapping = SharedMapping
  /\ event.kind = "message"
  /\ event.channel = "#Relay"
  /\ Len(discordOut) = 1
  /\ discordOut[1].channel = "dev"

(***************************************************************************)
(* C13: the forward and the inverse table are fixed at construction: no    *)
(* listener, command or send, in any sequence of events of either network, *)
(* adds, removes or changes an entry of either.                            *)
(***************************************************************************)
\* C13: no step changes the forward or the inverse table
C13_TablesFixed ==
  [][channelMapping' = channelMapping /\ invertedMapping' = invertedMapping]_vars

\* C13 witness: after events of both networks, an accepted invite leaves the tables as constructed
C13_TablesAsConstructed ==
  /\ event.kind = "invite"
  /\ ircOut # <<>>
  /\ discordReady
  /\ channelMapping = MappingOf(RawMapping)
  /\ invertedMapping = InvertOf(RawMapping)

(***************************************************************************)
(* C14: an IRC event whose channel maps to a Discord channel the bridge is *)
(* not present in (the lookup by name finds nothing, as before Discord is  *)
(* ready) is dropped with one log entry: nothing is sent, nothing raised,  *)
(* and nothing is queued: no later event, the ready event included, sends  *)
(* it after all.                                                           *)
(***************************************************************************)
\* an IRC channel with a counterpart in the table that the bridge is not present in
Absent(channel) ==
  /\ ToLowerCase(channel) \in DOMAIN invertedMapping
  /\ ~Bridged(channel)

InfoEntries == SelectSeq(logged, LAMBDA level : level = "info")

\* the text of a Discord message without its author annotation
Body(entry) ==
  LET i == IndexOf(entry.text, ">** ")
  IN SubSeq(entry.text, i + 4, Len(entry.text))

\* C14: a relay to an absent Discord channel logs once and sends, raises and queues nothing
C14_AbsentTargetDropped ==
  /\ (IsIrcTalk /\ Absent(event.channel)) =>
       (NothingSent /\ logged = <<"info">> /\ ~threw /\ alive)
  /\ (event.kind \in {"join", "part", "kick", "names"} /\ OwnToggle /\ Absent(event.channel)) =>
       (NothingSent /\ logged = <<"debug", "info">> /\ ~threw /\ alive)
  /\ (IsQuitOrKill /\ relayChannelQuits) =>
       /\ Len(InfoEntries) = Len(SelectSeq(event.channels, Absent))
       /\ Len(discordOut) = Len(SelectSeq(event.channels, Bridged))
       /\ ircOut = <<>> /\ ~threw /\ alive
  /\ event.kind = "ready" => NothingSent
  /\ IsIrcTalk => Len(discordOut) <= 1
  /\ \A i \in DOMAIN discordOut :
        /\ \E c \in discordChannels : c.name = discordOut[i].channel
        /\ IsIrcTalk =>
             /\ StartsWith(discordOut[i].text, "**<" \o event.nick \o ">** ")
             /\ Contains(Body(discordOut[i]), IF event.text = ".names" THEN "names" ELSE "hi")
             /\ Bridged(event.channel)
             /\ discordOut[i].channel = DiscordCounterpart(event.channel)

\* C14 witness: a message for dev dropped while the bridge is in general and random only
C14_DroppedWhileReady ==
  /\ event.kind = "message"
  /\ event.channel = "#other"
  /\ discordReady
  /\ "#other" \in DOMAIN invertedMapping
  /\ logged = <<"info">>
  /\ NothingSent

(***************************************************************************)
(* C15: a generic error event of either client is only logged: it sends    *)
(* nothing, raises nothing, changes no state of the bot and leaves both    *)
(* connections as they were, so that every later event finds the state it  *)
(* would have found without the error.                                     *)
(***************************************************************************)
ErrorKinds == {"ircError", "discordError"}

\* C15: a step handling an error event logs one entry and changes nothing else
C15_ErrorOnlyLogged ==
  [][event'.kind \in ErrorKinds =>
       /\ ircOut' = <<>>
       /\ discordOut' = <<>>
       /\ logged' = <<"error">>
       /\ ~threw'
       /\ alive'
       /\ UNCHANGED <<configVars, discordVars, alive, registrations, autoIssued>>]_vars

\* C15 witness: a Discord error handled while both clients are connected
C15_ErrorWhileConnected ==
  /\ event.kind = "discordError"
  /\ registrations > 0
  /\ discordReady
  /\ logged = <<"error">>
  /\ alive

(***************************************************************************)
(* C16: events are handled one at a time, to completion: the calls one     *)
(* event causes on a client (the text line then the attachment lines, the  *)
(* announcement then the command text, one message per channel of a quit)  *)
(* are made one after the other, none of another event's calls between     *)
(* them, and the calls of an earlier event precede those of a later one,   *)
(* so that relays of one source channel reach the destination in arrival   *)
(* order.                                                                  *)
(***************************************************************************)
\* the calls on the wire that the event handled `age` events ago made
CallsAged(w, age) == SelectSeq(w, LAMBDA e : e.age = age)

\* the calls of the last event, as its handler made them
LastCalls ==
  [i \in DOMAIN ircOut |-> [age |-> 0, client |-> "irc", call |-> ircOut[i]]]
    \o [i \in DOMAIN discordOut |-> [age |-> 0, client |-> "discord", call |-> discordOut[i]]]

MadeOlder(calls) == [i \in DOMAIN calls |-> [calls[i] EXCEPT !.age = @ + 1]]

IrcRelayKinds == {"message", "notice", "action", "join", "part", "kick", "quit", "kill", "names"}

\* the channels an IRC event is about
ChannelsOf(e) == IF e.kind \in {"quit", "kill"} THEN e.channels ELSE <<e.channel>>

\* the author an event on the channel is relayed under
AuthorOf(e, channel) ==
  IF e.kind \in {"message", "notice", "action"} THEN e.nick
  ELSE IF e.kind = "names" THEN channel
  ELSE channel \o "/" \o e.kind

BeginsWithCommandCharacter(text) == text # "" /\ IsPrefix(CharAt(text, 1))

\* C17: an IRC event calls nothing on IRC and relays only annotated messages to the counterpart
C17_IrcNeverCommands ==
  event.kind \in IrcRelayKinds =>
     /\ ircOut = <<>>
     /\ ~threw
     /\ \A i \in DOMAIN discordOut :
          \E j \in DOMAIN ChannelsOf(event) :
             LET channel == ChannelsOf(event)[j]
             IN /\ Bridged(channel)
                /\ discordOut[i].channel = DiscordCounterpart(channel)
                /\ StartsWith(discordOut[i].text, "**<" \o AuthorOf(event, channel) \o ">** ")
     /\ (/\ event.kind = "message"
         /\ BeginsWithCommandCharacter(event.text)
         /\ Bridged(event.channel)) =>
          discordOut = <<[channel |-> DiscordCounterpart(event.channel),
                          text |-> "**<" \o event.nick \o ">** " \o event.text]>>

\* C17 witness: ".names" said on IRC, with "." a command character, is relayed as it is
C17_NamesTextRelayed ==
  /\ event.kind = "message"
  /\ event.text = ".names"
  /\ IsPrefix(".")
  /\ discordOut = <<[channel |-> "general", text |-> "**<carol>** .names"]>>

(***************************************************************************)
(* C18: a Discord message in a mapped channel that is not a command, with  *)
(* the body b and k attachments, is said on the mapped IRC channel as one  *)
(* line "<author> b" (none when b is empty) and then k lines               *)
(* "<author> url", one per attachment in attachment order, all under the   *)
(* same author prefix; b is relayed with each LF, CR or CRLF replaced by    *)
(* one space, so that no line holds a line break.                          *)
(***************************************************************************)
\* the body as relayed: mentions replaced, line breaks folded, channel references expanded
RelayedBody == ParseText(event.message, discordChannels).text

IsPlainRelay ==
  /\ Relayable
  /\ ~threw
  /\ ~(RelayedBody # "" /\ IsPrefix(CharAt(RelayedBody, 1)))

HasLineBreak(s) == Contains(s, "\n") \/ Contains(s, "\r")

\* the number of CRLF pairs, and of line breaks that are not part of one
CrLfPairs(s) == Cardinality({i \in 1..(Len(s) - 1) : SubSeq(s, i, i + 1) = "\r\n"})
LineBreaks(s) == Cardinality({i \in 1..Len(s) : CharAt(s, i) \in {"\n", "\r"}}) - CrLfPairs(s)
Spaces(s) == Cardinality({i \in 1..Len(s) : CharAt(s, i) = " "})

\* C18: the body line, then the attachment lines in order, one prefix, no line break
C18_BodyThenAttachments ==
  IsPlainRelay =>
     LET body == event.message.content
         urls == event.message.attachments
     IN /\ ircOut = (IF body = "" THEN <<>> ELSE <<SayTo(AuthorPrefix \o RelayedBody)>>)
                       \o [i \in DOMAIN urls |-> SayTo(AuthorPrefix \o urls[i].url)]
        /\ discordOut = <<>>
        /\ \A i \in DOMAIN ircOut : ~HasLineBreak(ircOut[i].args[2])
        /\ (body = "") = (RelayedBody = "")
        /\ (~Contains(body, "<")) =>
             /\ Len(RelayedBody) = Len(body) - CrLfPairs(body)
             /\ Spaces(RelayedBody) = Spaces(body) + LineBreaks(body)
             /\ ~HasLineBreak(body) => RelayedBody = body

\* C18 witness: "hi" with two attachments, said in three lines
C18_TextAndTwoAttachments ==
  /\ IsPlainRelay
  /\ event.message.content = "hi"
  /\ Len(event.message.attachments) = 2
  /\ ircOut = <<SayTo(AuthorPrefix \o "hi"), SayTo(AuthorPrefix \o "http://cdn/1"),
                SayTo(AuthorPrefix \o "http://cdn/2")>>

(***************************************************************************)
(* C19: the nick color of a name is the palette color at the index         *)
(* (code of the first character + length of the name) mod N, N = 12 the    *)
(* palette size: the index of a non-empty name lies in 0..N-1, a name      *)
(* always gets the same color, two names with congruent sums get the same  *)
(* color, and coloring is on when the nick-color option is not set.        *)
(***************************************************************************)
PaletteSize == Len(NICK_COLORS)

\* the names of the users that write on Discord
Names == {u.username : u \in Users}

SumOf(name) == CharCode(CharAt(name, 1)) + Len(name)

\* the color a relayed line shows the author in, "" when it shows none
ColorShown(line) ==
  IF StartsWith(line, "<{") THEN SubSeq(line, 3, IndexOf(line, "}") - 1) ELSE ""

\* C19: the color shown is the palette's at (code + length) mod N, whenever coloring is on
C19_ColorBySum ==
  /\ PaletteSize = 12
  /\ "ircNickColor" \notin DOMAIN options => ircNickColor
  /\ ("ircNickColor" \in DOMAIN options /\ options.ircNickColor = FALSE) => ~ircNickColor
  /\ \A a \in Names :
        /\ ColorIndex(a) \in 0..(PaletteSize - 1)
        /\ ColorIndex(a) = SumOf(a) % PaletteSize
        /\ \A b \in Names :
              (SumOf(a) - SumOf(b)) % PaletteSize = 0 =>
                 DisplayUsername(a, TRUE) = "{" \o NICK_COLORS[ColorIndex(b) + 1] \o "}" \o a \o "{reset}"
  /\ IsPlainRelay =>
        \A i \in DOMAIN ircOut :
           LET name == event.message.author.username
           IN ColorShown(ircOut[i].args[2]) =
                IF ircNickColor THEN NICK_COLORS[(SumOf(name) % PaletteSize) + 1] ELSE ""

\* C19 witness: zed (122 + 3) is shown in the color of bob (98 + 3), index 5
C19_ZedColoredAsBob ==
  /\ IsPlainRelay
  /\ event.message.author.username = "zed"
  /\ "ircNickColor" \notin DOMAIN options
  /\ ircOut = <<SayTo("<{dark_green}zed{reset}> hi")>>
  /\ DisplayUsername("bob", TRUE) = "{dark_green}bob{reset}"

(***************************************************************************)
(* C20: invite handling agrees with relay routing: invited to the IRC      *)
(* channel c, the bridge joins c if and only if c is a channel whose       *)
(* messages, in that letter case, it would relay: it never joins a channel *)
(* outside the mapping and joins every invited channel it relays.          *)
(***************************************************************************)
\* the channel is one whose messages sendToDiscord finds a counterpart for
RelayedFrom(channel) == ToLowerCase(channel) \in DOMAIN invertedMapping

JoinsInvited == ircOut = <<[op |-> "join", args |-> <<event.channel>>]>>

\* C20: on an invite the bridge joins exactly the channels whose messages it relays
C20_InviteAgreesWithRelay ==
  event.kind = "invite" =>
     /\ JoinsInvited = RelayedFrom(event.channel)
     /\ ~JoinsInvited => ircOut = <<>>
     /\ discordOut = <<>>

====
